---- MODULE Spec2Model ----
(***************************************************************************)
(* Model of the webhook receiver: app/main.py (webhook handler, payload    *)
(* validation, signature verification), app/storage.py (insert_message,    *)
(* fetch_messages), app/models.py (schema of the messages table) and       *)
(* app/metrics.py (the counters, their lock and their export).             *)
(*                                                                         *)
(* Strings are sequences of one-character strings, so that startswith,     *)
(* endswith, isdigit, the BINARY collation and LIKE are computed on their  *)
(* characters.                                                             *)
(***************************************************************************)
EXTENDS Integers, Sequences, FiniteSets, TLC

VARIABLES
    messages,                \* rows of table `messages`, in rowid order
    reqs,                    \* the webhook requests: input, position, response
    webhook_requests_total,  \* metrics._webhook_requests_total
    clock,                   \* source of datetime.utcnow()
    overlapped,              \* pairs of requests that were in flight together
    fetch,                   \* the paging session of the /messages client
    http_requests_total,     \* metrics._http_requests_total
    request_latency_ms_count,\* metrics._request_latency_ms_count
    stats,                   \* the last response of /stats
    exported,                \* the snapshots export_metrics has returned
    lock,                    \* metrics._lock: the thread that holds it
    thr,                     \* the threads that call into app/metrics.py
    completed,               \* the increment calls that have returned
    history                  \* the counters at the moments no call was half done

vars == <<messages, reqs, webhook_requests_total, clock, overlapped, fetch,
          http_requests_total, request_latency_ms_count, stats, exported,
          lock, thr, completed, history>>

\* The state of the threads that run the functions of app/metrics.py step by
\* step; the handlers below call these functions from the event loop, one
\* call at a time, and leave it alone.
metrics_threads == <<lock, thr, completed, history>>

-----------------------------------------------------------------------------
(* Bounds *)

MaxReqs == 2

ReqIds == 1..MaxReqs

-----------------------------------------------------------------------------
(* Characters and strings *)

\* The characters used, in code-point order ("e'" stands for U+00E9).
Alphabet == <<"%", "+", "0", "1", "2", "A", "B", "Z", "_", "a", "b", "e'">>

Code(c) == CHOOSE i \in 1..Len(Alphabet) : Alphabet[i] = c

Digits == {"0", "1", "2"}

\* str.startswith / str.endswith with a one-character argument
StartsWith(s, c) == Len(s) >= 1 /\ s[1] = c

EndsWith(s, c) == Len(s) >= 1 /\ s[Len(s)] = c

\* str.isdigit(): non-empty and every character a digit
IsDigitStr(s) == Len(s) >= 1 /\ \A i \in 1..Len(s) : s[i] \in Digits

\* v[1:]
Tail1(s) == IF Len(s) = 0 THEN <<>> ELSE Tail(s)


-----------------------------------------------------------------------------
(* The request body: JSON object of optional fields, or bytes that are no  *)
(* JSON.  A field value is a JSON string, JSON null, or absent.            *)

Str(s) == [kind |-> "str", s |-> s]

Null == [kind |-> "null", s |-> <<>>]

Absent == [kind |-> "absent", s |-> <<>>]

MkBody(id, from, to, ts, text) ==
    [json |-> TRUE, message_id |-> id, from |-> from, to |-> to, ts |-> ts,
     text |-> text]

NotJson ==
    [json |-> FALSE, message_id |-> Absent, from |-> Absent, to |-> Absent,
     ts |-> Absent, text |-> Absent]

\* Field(None, max_length=4096)
MaxTextLen == 4096

LongText == [i \in 1..(MaxTextLen + 1) |-> "a"]

\* Payloads that satisfy WebhookPayload.  B2 repeats B1's message_id with
\* other fields; B4 repeats B3's (ts, message_id) with another text.
B1 == MkBody(Str(<<"a">>), Str(<<"+", "1">>), Str(<<"+", "0">>), Str(<<"1", "Z">>), Str(<<"a">>))
B2 == MkBody(Str(<<"a">>), Str(<<"+", "2">>), Str(<<"+", "0">>), Str(<<"2", "Z">>), Str(<<"A", "_">>))
B3 == MkBody(Str(<<"b">>), Str(<<"+", "1">>), Str(<<"+", "0">>), Str(<<"1", "Z">>), Null)
B4 == MkBody(Str(<<"b">>), Str(<<"+", "1">>), Str(<<"+", "0">>), Str(<<"1", "Z">>), Str(<<"%">>))

GoodBodies == {B1, B2, B3, B4}

\* B1 with a sender that has no leading +
BadFrom == [B1 EXCEPT !.from = Str(<<"1">>)]

\* Payloads that violate WebhookPayload, one field each, and a body that is
\* no JSON.
BadBodies ==
    { BadFrom,
      [B1 EXCEPT !.from = Str(<<"+">>)],          \* no digit after +
      [B1 EXCEPT !.to = Str(<<"+", "a">>)],       \* a non-digit after +
      [B1 EXCEPT !.ts = Str(<<"1">>)],            \* no trailing Z
      [B1 EXCEPT !.text = Str(LongText)],         \* text longer than 4096
      [B1 EXCEPT !.message_id = Absent],          \* missing field
      [B1 EXCEPT !.message_id = Str(<<>>)],       \* min_length=1
      [B1 EXCEPT !.ts = Null],                    \* null for a str field
      NotJson }

Bodies == GoodBodies \cup BadBodies

-----------------------------------------------------------------------------
(* WebhookPayload *)

\* validate_from without the check of the characters after the +
validate_from_prefix_only(v) == StartsWith(v, "+")

validate_from(v) == StartsWith(v, "+") /\ IsDigitStr(Tail1(v))

validate_to(v) == StartsWith(v, "+") /\ IsDigitStr(Tail1(v))

validate_ts(v) == EndsWith(v, "Z")

\* WebhookPayload.model_validate_json(raw_body) returns (TRUE) or raises
\* ValidationError (FALSE).
WebhookPayload(body) ==
    /\ body.json
    /\ body.message_id.kind = "str" /\ Len(body.message_id.s) >= 1
    /\ body.from.kind = "str" /\ validate_from(body.from.s)
    /\ body.to.kind = "str" /\ Len(body.to.s) >= 1 /\ validate_to(body.to.s)
    /\ body.ts.kind = "str" /\ Len(body.ts.s) >= 1 /\ validate_ts(body.ts.s)
    /\ \/ body.text.kind \in {"null", "absent"}
       \/ body.text.kind = "str" /\ Len(body.text.s) <= MaxTextLen

-----------------------------------------------------------------------------
(* Signatures.  HMAC-SHA256 is an ideal MAC: its hex digest is determined  *)
(* by, and determines, the key and the message.                            *)

WEBHOOK_SECRET == "secret"

OtherSecret == "other"

HmacHex(key, msg) == [kind |-> "hex", key |-> key, msg |-> msg]

\* X-Signature header values that are no digest: no header, an empty
\* header, a header with a non-ASCII character (decoded as latin-1).
NoHeader == [kind |-> "absent", key |-> "", msg |-> NotJson]

EmptyHeader == [kind |-> "empty", key |-> "", msg |-> NotJson]

NonAsciiHeader == [kind |-> "nonascii", key |-> "", msg |-> NotJson]

\* A body other than `body` (the body before it was mutated).
OtherBody(body) == IF body = B3 THEN B1 ELSE B3

\* Header values that must not authenticate `body`: none, empty, non-ASCII,
\* the digest under another secret, the digest of another body.
BadSignatures(body) ==
    { NoHeader, EmptyHeader, NonAsciiHeader,
      HmacHex(OtherSecret, body),
      HmacHex(WEBHOOK_SECRET, OtherBody(body)) }

\* The requests sent: every body with its valid signature, and a conforming
\* and a non-conforming body with every other header value.
Inputs ==
    {[body |-> b, sig |-> HmacHex(WEBHOOK_SECRET, b)] : b \in Bodies}
    \cup {[body |-> b, sig |-> x] : b \in {B1}, x \in BadSignatures(B1)}
    \cup {[body |-> b, sig |-> x] : b \in {BadFrom}, x \in BadSignatures(BadFrom)}

\* hmac.compare_digest(a, b) on str: TypeError when a string holds a
\* non-ASCII character, else whether they are equal.
compare_digest(a, b) ==
    IF a.kind = "nonascii" \/ b.kind = "nonascii" THEN "TypeError"
    ELSE IF a = b THEN "True" ELSE "False"

\* a verifier that parses the payload before it compares, and raises on a
\* payload that does not validate
verify_signature_parse_first(body, signature) ==
    IF ~WebhookPayload(body) THEN "TypeError"
    ELSE compare_digest(HmacHex(WEBHOOK_SECRET, body), signature)

verify_signature(body, signature) ==
    compare_digest(HmacHex(WEBHOOK_SECRET, body), signature)

\* `not x_signature`: None or the empty string
NotSignature(sig) == sig.kind \in {"absent", "empty"}


-----------------------------------------------------------------------------
(* The messages table and insert_message *)

\* The columns of table `messages` that carry a PRIMARY KEY or UNIQUE
\* constraint in CREATE TABLE: none.
UniqueColumns == {}

\* The INSERT raises sqlite3.IntegrityError: a row with the same value in a
\* constrained column exists.
IntegrityError(rows, row) ==
    \E c \in UniqueColumns : \E i \in 1..Len(rows) : rows[i][c] = row[c]

NewRow(rows, body, created_at) ==
    [rowid |-> Len(rows) + 1,
     message_id |-> body.message_id.s,
     from_msisdn |-> body.from.s,
     to_msisdn |-> body.to.s,
     ts |-> body.ts.s,
     text |-> IF body.text.kind = "str" THEN body.text ELSE Null,
     created_at |-> created_at]

\* an insert that overwrites the stored row of the same message_id
insert_message_upsert(rows, body, created_at) ==
    LET row == NewRow(rows, body, created_at)
        same == {i \in 1..Len(rows) : rows[i].message_id = row.message_id}
    IN IF same = {}
       THEN [result |-> "created", rows |-> Append(rows, row)]
       ELSE [result |-> "duplicate",
             rows |-> [i \in 1..Len(rows) |->
                          IF i \in same THEN [row EXCEPT !.rowid = i] ELSE rows[i]]]

\* insert_message: the result and the table after it.
insert_message(rows, body, created_at) ==
    LET row == NewRow(rows, body, created_at) IN
    IF IntegrityError(rows, row)
    THEN [result |-> "duplicate", rows |-> rows]
    ELSE [result |-> "created", rows |-> Append(rows, row)]

-----------------------------------------------------------------------------
(* fetch_messages *)

\* SQLite's BINARY collation on TEXT: memcmp of the common prefix, then the
\* shorter string first.
RECURSIVE StrLess(_, _)
StrLess(a, b) ==
    IF b = <<>> THEN FALSE
    ELSE IF a = <<>> THEN TRUE
    ELSE IF a[1] # b[1] THEN Code(a[1]) < Code(b[1])
    ELSE StrLess(Tail(a), Tail(b))

\* LIKE folds the case of ASCII letters.
Fold(c) == IF c = "A" THEN "a" ELSE IF c = "B" THEN "b" ELSE IF c = "Z" THEN "z" ELSE c

\* SQLite's `t LIKE p`: % matches any run of characters, _ any one character.
RECURSIVE Like(_, _)
Like(t, p) ==
    IF p = <<>> THEN t = <<>>
    ELSE IF p[1] = "%" THEN
        \E k \in 0..Len(t) : Like(SubSeq(t, k + 1, Len(t)), Tail(p))
    ELSE IF t = <<>> THEN FALSE
    ELSE IF p[1] = "_" THEN Like(Tail(t), Tail(p))
    ELSE Fold(t[1]) = Fold(p[1]) /\ Like(Tail(t), Tail(p))

\* The WHERE clause built from the parameters that are not None (a NULL text
\* is not LIKE anything).
Where(row, from_msisdn, since_ts, q) ==
    /\ from_msisdn.kind = "str" => row.from_msisdn = from_msisdn.s
    /\ since_ts.kind = "str" => ~StrLess(row.ts, since_ts.s)
    /\ q.kind = "str" =>
           /\ row.text.kind = "str"
           /\ Like(row.text.s, <<"%">> \o q.s \o <<"%">>)

Selected(rows, from_msisdn, since_ts, q) ==
    {i \in 1..Len(rows) : Where(rows[i], from_msisdn, since_ts, q)}

\* ORDER BY ts ASC, message_id ASC
OrderedBefore(a, b) ==
    \/ StrLess(a.ts, b.ts)
    \/ a.ts = b.ts /\ StrLess(a.message_id, b.message_id)

\* The orders in which the engine may return the selected rows: every
\* arrangement that agrees with ORDER BY; rows with equal keys come in an
\* order the engine does not specify.
ResultOrders(rows, sel) ==
    {o \in [1..Cardinality(sel) -> sel] :
        /\ \A i, j \in 1..Cardinality(sel) : i # j => o[i] # o[j]
        /\ \A i, j \in 1..Cardinality(sel) :
               i < j => ~OrderedBefore(rows[o[j]], rows[o[i]])}

\* a page that runs one row past the limit
LimitOffset_one_more(seq, limit, offset) ==
    SubSeq(seq, offset + 1,
           IF offset + limit + 1 < Len(seq) THEN offset + limit + 1 ELSE Len(seq))

\* LIMIT ? OFFSET ?
LimitOffset(seq, limit, offset) ==
    SubSeq(seq, offset + 1, IF offset + limit < Len(seq) THEN offset + limit ELSE Len(seq))

\* fetch_messages with the engine returning the selected rows in order `o`.
fetch_messages(rows, o, limit, offset, from_msisdn, since_ts, q) ==
    [messages |-> LimitOffset([i \in 1..Len(o) |-> rows[o[i]]], limit, offset),
     total |-> Cardinality(Selected(rows, from_msisdn, since_ts, q))]

-----------------------------------------------------------------------------
(* get_stats *)

\* LIMIT 10
TopSenders == 10

\* first_message_ts taken from the row inserted first
MinTs_first_inserted(rows) ==
    IF rows = <<>> THEN Null ELSE Str(rows[1].ts)

\* MIN(ts): NULL over no rows
MinTs(rows) ==
    IF rows = <<>> THEN Null
    ELSE Str(rows[CHOOSE i \in 1..Len(rows) :
                 \A j \in 1..Len(rows) : ~StrLess(rows[j].ts, rows[i].ts)].ts)

\* MAX(ts)
MaxTs(rows) ==
    IF rows = <<>> THEN Null
    ELSE Str(rows[CHOOSE i \in 1..Len(rows) :
                 \A j \in 1..Len(rows) : ~StrLess(rows[i].ts, rows[j].ts)].ts)

Senders(rows) == {rows[i].from_msisdn : i \in 1..Len(rows)}

\* COUNT(*) of the group of one sender
CountOf(rows, sender) ==
    Cardinality({i \in 1..Len(rows) : rows[i].from_msisdn = sender})

\* GROUP BY from_msisdn ORDER BY count DESC: the orders in which the engine
\* may return the groups; groups with equal counts come in an order the
\* engine does not specify.
SenderOrders(rows) ==
    LET S == Senders(rows)
        n == Cardinality(S)
    IN {o \in [1..n -> S] :
           /\ \A i, j \in 1..n : i # j => o[i] # o[j]
           /\ \A i, j \in 1..n :
                  i < j => CountOf(rows, o[i]) >= CountOf(rows, o[j])}

\* get_stats with the engine returning the groups in order `o`.
get_stats(rows, o) ==
    [total_messages |-> Len(rows),
     senders_count |-> Cardinality(Senders(rows)),
     messages_per_sender |->
         [i \in 1..(IF Len(o) < TopSenders THEN Len(o) ELSE TopSenders) |->
             [from |-> o[i], count |-> CountOf(rows, o[i])]],
     first_message_ts |-> MinTs(rows),
     last_message_ts |-> MaxTs(rows)]

-----------------------------------------------------------------------------
(* metrics.py *)

Results == {"invalid_signature", "validation_error", "created", "duplicate"}

increment_webhook_result(counters, result) ==
    [counters EXCEPT ![result] = @ + 1]

Paths == {"/webhook", "/messages", "/stats", "/metrics", "/health/ready"}

Statuses == {200, 401, 422, 500, 503}

\* The keys of _http_requests_total; a key not yet in the defaultdict counts 0.
HttpKeys == Paths \X Statuses

\* increment_http_request: both counters after it.
increment_http_request(http, latency, path, status) ==
    [http |-> [http EXCEPT ![<<path, status>>] = @ + 1], latency |-> latency + 1]

\* export_metrics: the counter values its text holds.
export_metrics(http, per_result, latency) ==
    [http |-> http, webhook |-> per_result, latency |-> latency]

-----------------------------------------------------------------------------
(* The middleware *)

\* logging_middleware around a handler.  When the handler raised, call_next
\* raises the exception again in the middleware: the lines after it do not
\* run, and the server answers 500 outside the middleware.
logging_middleware(path, status, raised) ==
    IF raised
    THEN UNCHANGED <<http_requests_total, request_latency_ms_count>>
    ELSE LET m == increment_http_request(http_requests_total,
                                         request_latency_ms_count, path, status)
         IN /\ http_requests_total' = m.http
            /\ request_latency_ms_count' = m.latency

-----------------------------------------------------------------------------
(* The webhook handler *)

\* The response to a request whose handler raised: the application installs
\* handlers for HTTPException and RequestValidationError only, every other
\* exception is answered 500.
ExceptionStatus(exc) ==
    IF exc = "RequestValidationError" THEN 422 ELSE 500

\* a handler that answers a first delivery 201 Created
OkResponse_created_201(result) ==
    IF result = "created" THEN [status |-> 201, content |-> "status: created"]
    ELSE [status |-> 200, content |-> "status: ok"]

\* return {"status": "ok"}
OkResponse(result) == [status |-> 200, content |-> "status: ok"]

\* JSONResponse(status_code=401, content={"detail": "invalid signature"})
InvalidSignatureResponse == [status |-> 401, content |-> "detail: invalid signature"]

IdleRequest ==
    [pc |-> "idle", sig |-> NoHeader, body |-> NotJson, result |-> "unset",
     status |-> 0, content |-> "", exc |-> "none",
     insertCalls |-> 0, rowsAdded |-> 0, seenBefore |-> FALSE]

\* The request is finished by a return of the handler.
Returned(rq, result, resp, calls, added, seen) ==
    [rq EXCEPT !.pc = "done", !.result = result, !.status = resp.status,
               !.content = resp.content, !.insertCalls = calls,
               !.rowsAdded = added, !.seenBefore = seen]

\* The request is finished by an exception leaving the handler.
Raised(rq, result, exc, calls, seen) ==
    [rq EXCEPT !.pc = "done", !.result = result, !.exc = exc,
               !.status = ExceptionStatus(exc),
               !.content = "Internal Server Error", !.insertCalls = calls,
               !.seenBefore = seen]

InFlight == {r \in ReqIds : reqs[r].pc = "body"}

\* A request arrives: the handler awaits request.body().
Arrive(r, body, sig) ==
    /\ reqs[r].pc = "idle"
    /\ \A q \in 1..(r - 1) : reqs[q].pc # "idle"
    /\ reqs' = [reqs EXCEPT ![r] = [@ EXCEPT !.pc = "body", !.body = body, !.sig = sig]]
    /\ overlapped' = overlapped \cup {{r, q} : q \in InFlight}
    /\ UNCHANGED <<messages, webhook_requests_total, clock, fetch,
                   http_requests_total, request_latency_ms_count, stats,
                   exported, metrics_threads>>

\* The handler from the body on.  `fault` is the store failing the INSERT
\* with an error other than IntegrityError (sqlite3.OperationalError).
webhook(r, fault) ==
    /\ reqs[r].pc = "body"
    /\ LET rq == reqs[r]
           seen == \E i \in 1..Len(messages) :
                       messages[i].message_id = rq.body.message_id.s
           ins == insert_message(messages, rq.body, clock)
       IN
       IF NotSignature(rq.sig) THEN
           /\ reqs' = [reqs EXCEPT ![r] =
                  Returned(rq, "invalid_signature", InvalidSignatureResponse, 0, 0, FALSE)]
           /\ webhook_requests_total' =
                  increment_webhook_result(webhook_requests_total, "invalid_signature")
           /\ UNCHANGED <<messages, clock>>
       ELSE IF verify_signature(rq.body, rq.sig) = "TypeError" THEN
           /\ reqs' = [reqs EXCEPT ![r] = Raised(rq, "unset", "TypeError", 0, FALSE)]
           /\ UNCHANGED <<messages, clock, webhook_requests_total>>
       ELSE IF verify_signature(rq.body, rq.sig) = "False" THEN
           /\ reqs' = [reqs EXCEPT ![r] =
                  Returned(rq, "invalid_signature", InvalidSignatureResponse, 0, 0, FALSE)]
           /\ webhook_requests_total' =
                  increment_webhook_result(webhook_requests_total, "invalid_signature")
           /\ UNCHANGED <<messages, clock>>
       ELSE IF ~WebhookPayload(rq.body) THEN
           /\ reqs' = [reqs EXCEPT ![r] =
                  Raised(rq, "validation_error", "ValidationError", 0, FALSE)]
           /\ webhook_requests_total' =
                  increment_webhook_result(webhook_requests_total, "validation_error")
           /\ UNCHANGED <<messages, clock>>
       ELSE IF fault THEN
           /\ reqs' = [reqs EXCEPT ![r] = Raised(rq, "unset", "OperationalError", 1, seen)]
           /\ clock' = clock + 1
           /\ UNCHANGED <<messages, webhook_requests_total>>
       ELSE
           /\ messages' = ins.rows
           /\ clock' = clock + 1
           /\ reqs' = [reqs EXCEPT ![r] =
                  Returned(rq, ins.result, OkResponse(ins.result), 1,
                           Len(ins.rows) - Len(messages), seen)]
           /\ webhook_requests_total' =
                  increment_webhook_result(webhook_requests_total, ins.result)
    /\ logging_middleware("/webhook", reqs'[r].status, reqs'[r].exc # "none")
    /\ UNCHANGED <<overlapped, fetch, stats, exported, metrics_threads>>

-----------------------------------------------------------------------------
(* The query handler *)

\* limit: Query(ge=1, le=100)
MaxLimit == 100

\* The largest offset the client asks for.
MaxOffset == 2

Limits == {1, 2, MaxLimit}

Offsets == 0..MaxOffset

FromFilters == {Absent, Str(<<"+", "1">>)}

SinceFilters == {Absent, Str(<<"2", "Z">>)}

QFilters == {Absent, Str(<<"a">>), Str(<<"_">>)}

\* One item of "data": the row without created_at.
Item(row) ==
    [message_id |-> row.message_id, from |-> row.from_msisdn,
     to |-> row.to_msisdn, ts |-> row.ts, text |-> row.text]

NoFetch ==
    [open |-> FALSE, limit |-> 0, offset |-> 0, from |-> Absent,
     since |-> Absent, q |-> Absent, rowsAt |-> 0, pages |-> <<>>]

\* GET /messages.  `fetch` is the client's record of its calls: a call that
\* asks for the page after the last one, with the same limit and filters and
\* with the table as it was, continues the record; any other call starts it
\* anew.  `rowids` names the rows behind the items of a page.
Continues(limit, offset, from, since, q) ==
    /\ fetch.open
    /\ fetch.limit = limit /\ fetch.from = from
    /\ fetch.since = since /\ fetch.q = q
    /\ fetch.rowsAt = Len(messages)
    /\ offset = fetch.offset + limit * Len(fetch.pages)

get_messages(limit, offset, from, since, q) ==
    /\ \E o \in ResultOrders(messages, Selected(messages, from, since, q)) :
         LET res == fetch_messages(messages, o, limit, offset, from, since, q)
             page == [data |-> [i \in 1..Len(res.messages) |-> Item(res.messages[i])],
                      rowids |-> [i \in 1..Len(res.messages) |-> res.messages[i].rowid],
                      total |-> res.total, limit |-> limit, offset |-> offset]
         IN fetch' = IF Continues(limit, offset, from, since, q)
                     THEN [fetch EXCEPT !.pages = Append(@, page)]
                     ELSE [open |-> TRUE, limit |-> limit, offset |-> offset,
                           from |-> from, since |-> since, q |-> q,
                           rowsAt |-> Len(messages), pages |-> <<page>>]
    /\ logging_middleware("/messages", 200, FALSE)
    /\ UNCHANGED <<messages, reqs, webhook_requests_total, clock, overlapped, stats,
                   exported, metrics_threads>>

-----------------------------------------------------------------------------
(* The statistics handler *)

\* The number of /stats calls made.
MaxStatsCalls == 2

NoStats ==
    [open |-> FALSE, rowsAt |-> 0,
     body |-> [total_messages |-> 0, senders_count |-> 0,
               messages_per_sender |-> <<>>, first_message_ts |-> Null,
               last_message_ts |-> Null]]

\* GET /stats
get_statistics ==
    /\ \E o \in SenderOrders(messages) :
           stats' = [open |-> TRUE, rowsAt |-> Len(messages),
                     body |-> get_stats(messages, o)]
    /\ logging_middleware("/stats", 200, FALSE)
    /\ UNCHANGED <<messages, reqs, webhook_requests_total, clock, overlapped, fetch,
                   exported, metrics_threads>>

-----------------------------------------------------------------------------
(* The metrics and readiness handlers *)

\* The calls made of each of /metrics and /health/ready.
MaxProbes == 1

\* GET /metrics
get_metrics ==
    /\ exported' = exported \cup
           {export_metrics(http_requests_total, webhook_requests_total,
                           request_latency_ms_count)}
    /\ logging_middleware("/metrics", 200, FALSE)
    /\ UNCHANGED <<messages, reqs, webhook_requests_total, clock, overlapped, fetch,
                   stats, metrics_threads>>

\* config.is_webhook_secret_valid
is_webhook_secret_valid == WEBHOOK_SECRET # ""

\* GET /health/ready.  `db_ready` is the result of check_db, which reads
\* sqlite_master and answers False when the table is missing or the read
\* raises.
health_ready(db_ready) ==
    /\ logging_middleware("/health/ready",
                          IF db_ready /\ is_webhook_secret_valid THEN 200 ELSE 503,
                          FALSE)
    /\ UNCHANGED <<messages, reqs, webhook_requests_total, clock, overlapped, fetch,
                   stats, exported, metrics_threads>>

-----------------------------------------------------------------------------
(* app/metrics.py statement by statement, called from several threads.     *)
(* `c[k] += 1` is a read of c[k] and a write of the value read plus one.   *)

MaxThreads == 2

\* The calls of the functions of app/metrics.py made in all.
MaxCalls == 4

Threads == 1..MaxThreads

NoThread == 0

\* The keys and the results the threads report.
MetricKeys == {<<"/webhook", 200>>, <<"/webhook", 401>>}

MetricResults == {"created", "invalid_signature"}

NoSnapshot == export_metrics([k \in HttpKeys |-> 0], [x \in Results |-> 0], 0)

IdleThread ==
    [pc |-> "idle", op |-> "none", key |-> <<"/webhook", 200>>,
     result |-> "created", tmp |-> 0, snap |-> NoSnapshot]

NoCalls ==
    [http |-> [k \in HttpKeys |-> 0], webhook |-> [x \in Results |-> 0],
     export |-> 0]

RECURSIVE TotalOf(_, _)
TotalOf(f, keys) ==
    IF keys = {} THEN 0
    ELSE LET k == CHOOSE x \in keys : TRUE IN f[k] + TotalOf(f, keys \ {k})

\* The calls begun: those that returned and those under way.
CallsBegun ==
    TotalOf(completed.http, HttpKeys) + TotalOf(completed.webhook, Results)
    + completed.export + Cardinality({t \in Threads : thr[t].pc # "idle"})

\* An increment_http_request call has written _http_requests_total and not
\* yet _request_latency_ms_count.
PartlyApplied(th) ==
    \E t \in Threads : th[t].pc \in {"latency_read", "latency_write"}

\* `history` after a write of a counter.
Recorded(http, per_result, latency, th) ==
    IF PartlyApplied(th) THEN history
    ELSE history \cup {export_metrics(http, per_result, latency)}

increment_http_request_call(t, key) ==
    /\ thr[t].pc = "idle"
    /\ CallsBegun < MaxCalls
    /\ thr' = [thr EXCEPT ![t] = [IdleThread EXCEPT !.pc = "lock", !.op = "http",
                                                    !.key = key]]
    /\ UNCHANGED <<messages, reqs, webhook_requests_total, clock, overlapped, fetch,
                   http_requests_total, request_latency_ms_count, stats, exported,
                   lock, completed, history>>

increment_webhook_result_call(t, result) ==
    /\ thr[t].pc = "idle"
    /\ CallsBegun < MaxCalls
    /\ thr' = [thr EXCEPT ![t] = [IdleThread EXCEPT !.pc = "lock", !.op = "webhook",
                                                    !.result = result]]
    /\ UNCHANGED <<messages, reqs, webhook_requests_total, clock, overlapped, fetch,
                   http_requests_total, request_latency_ms_count, stats, exported,
                   lock, completed, history>>

export_metrics_call(t) ==
    /\ thr[t].pc = "idle"
    /\ CallsBegun < MaxCalls
    /\ thr' = [thr EXCEPT ![t] = [IdleThread EXCEPT !.pc = "lock", !.op = "export"]]
    /\ UNCHANGED <<messages, reqs, webhook_requests_total, clock, overlapped, fetch,
                   http_requests_total, request_latency_ms_count, stats, exported,
                   lock, completed, history>>

\* a lock that never blocks
CanAcquire_unlocked(t) == TRUE

\* `with _lock:` blocks until no thread holds the lock.
CanAcquire(t) == lock = NoThread

\* The first statement in the `with` block of each function.
FirstStatement(op) ==
    CASE op = "http" -> "http_read"
      [] op = "webhook" -> "webhook_read"
      [] op = "export" -> "export_http"

\* `with _lock:` entered
acquire(t) ==
    /\ thr[t].pc = "lock"
    /\ CanAcquire(t)
    /\ lock' = t
    /\ thr' = [thr EXCEPT ![t].pc = FirstStatement(thr[t].op)]
    /\ UNCHANGED <<messages, reqs, webhook_requests_total, clock, overlapped, fetch,
                   http_requests_total, request_latency_ms_count, stats, exported,
                   completed, history>>

\* _http_requests_total[(path, status)] += 1
http_read(t) ==
    /\ thr[t].pc = "http_read"
    /\ thr' = [thr EXCEPT ![t].pc = "http_write",
                          ![t].tmp = http_requests_total[thr[t].key]]
    /\ UNCHANGED <<messages, reqs, webhook_requests_total, clock, overlapped, fetch,
                   http_requests_total, request_latency_ms_count, stats, exported,
                   lock, completed, history>>

http_write(t) ==
    /\ thr[t].pc = "http_write"
    /\ http_requests_total' =
           [http_requests_total EXCEPT ![thr[t].key] = thr[t].tmp + 1]
    /\ thr' = [thr EXCEPT ![t].pc = "latency_read"]
    /\ history' = Recorded(http_requests_total', webhook_requests_total,
                           request_latency_ms_count, thr')
    /\ UNCHANGED <<messages, reqs, webhook_requests_total, clock, overlapped, fetch,
                   request_latency_ms_count, stats, exported, lock, completed>>

\* _request_latency_ms_count += 1
latency_read(t) ==
    /\ thr[t].pc = "latency_read"
    /\ thr' = [thr EXCEPT ![t].pc = "latency_write",
                          ![t].tmp = request_latency_ms_count]
    /\ UNCHANGED <<messages, reqs, webhook_requests_total, clock, overlapped, fetch,
                   http_requests_total, request_latency_ms_count, stats, exported,
                   lock, completed, history>>

latency_write(t) ==
    /\ thr[t].pc = "latency_write"
    /\ request_latency_ms_count' = thr[t].tmp + 1
    /\ thr' = [thr EXCEPT ![t].pc = "unlock"]
    /\ history' = Recorded(http_requests_total, webhook_requests_total,
                           request_latency_ms_count', thr')
    /\ UNCHANGED <<messages, reqs, webhook_requests_total, clock, overlapped, fetch,
                   http_requests_total, stats, exported, lock, completed>>

\* _webhook_requests_total[result] += 1
webhook_read(t) ==
    /\ thr[t].pc = "webhook_read"
    /\ thr' = [thr EXCEPT ![t].pc = "webhook_write",
                          ![t].tmp = webhook_requests_total[thr[t].result]]
    /\ UNCHANGED <<messages, reqs, webhook_requests_total, clock, overlapped, fetch,
                   http_requests_total, request_latency_ms_count, stats, exported,
                   lock, completed, history>>

webhook_write(t) ==
    /\ thr[t].pc = "webhook_write"
    /\ webhook_requests_total' =
           [webhook_requests_total EXCEPT ![thr[t].result] = thr[t].tmp + 1]
    /\ thr' = [thr EXCEPT ![t].pc = "unlock"]
    /\ history' = Recorded(http_requests_total, webhook_requests_total',
                           request_latency_ms_count, thr')
    /\ UNCHANGED <<messages, reqs, clock, overlapped, fetch, http_requests_total,
                   request_latency_ms_count, stats, exported, lock, completed>>

\* The three loops of export_metrics, each reading one counter family.
export_http(t) ==
    /\ thr[t].pc = "export_http"
    /\ thr' = [thr EXCEPT ![t].pc = "export_webhook",
                          ![t].snap.http = http_requests_total]
    /\ UNCHANGED <<messages, reqs, webhook_requests_total, clock, overlapped, fetch,
                   http_requests_total, request_latency_ms_count, stats, exported,
                   lock, completed, history>>

export_webhook(t) ==
    /\ thr[t].pc = "export_webhook"
    /\ thr' = [thr EXCEPT ![t].pc = "export_latency",
                          ![t].snap.webhook = webhook_requests_total]
    /\ UNCHANGED <<messages, reqs, webhook_requests_total, clock, overlapped, fetch,
                   http_requests_total, request_latency_ms_count, stats, exported,
                   lock, completed, history>>

export_latency(t) ==
    /\ thr[t].pc = "export_latency"
    /\ thr' = [thr EXCEPT ![t].pc = "unlock",
                          ![t].snap.latency = request_latency_ms_count]
    /\ UNCHANGED <<messages, reqs, webhook_requests_total, clock, overlapped, fetch,
                   http_requests_total, request_latency_ms_count, stats, exported,
                   lock, completed, history>>

\* The `with` block is left and the function returns.
release(t) ==
    /\ thr[t].pc = "unlock"
    /\ lock' = NoThread
    /\ thr' = [thr EXCEPT ![t] = IdleThread]
    /\ completed' =
           CASE thr[t].op = "http" -> [completed EXCEPT !.http[thr[t].key] = @ + 1]
             [] thr[t].op = "webhook" -> [completed EXCEPT !.webhook[thr[t].result] = @ + 1]
             [] thr[t].op = "export" -> [completed EXCEPT !.export = @ + 1]
    /\ exported' = IF thr[t].op = "export" THEN exported \cup {thr[t].snap}
                   ELSE exported
    /\ UNCHANGED <<messages, reqs, webhook_requests_total, clock, overlapped, fetch,
                   http_requests_total, request_latency_ms_count, stats, history>>

-----------------------------------------------------------------------------

Init ==
    /\ messages = <<>>
    /\ reqs = [r \in ReqIds |-> IdleRequest]
    /\ webhook_requests_total = [x \in Results |-> 0]
    /\ clock = 1
    /\ overlapped = {}
    /\ fetch = NoFetch
    /\ http_requests_total = [k \in HttpKeys |-> 0]
    /\ request_latency_ms_count = 0
    /\ stats = NoStats
    /\ exported = {}
    /\ lock = NoThread
    /\ thr = [t \in Threads |-> IdleThread]
    /\ completed = NoCalls
    /\ history = {NoSnapshot}

Next ==
    \/ \E r \in ReqIds : \E in \in Inputs : Arrive(r, in.body, in.sig)
    \/ \E r \in ReqIds : \E fault \in BOOLEAN : webhook(r, fault)

Spec == Init /\ [][Next]_vars

\* Validly signed, conforming ingests, one at a time, and one client that
\* pages through one query.
NextQuery ==
    \/ \E r \in ReqIds : \E b \in GoodBodies :
           InFlight = {} /\ Arrive(r, b, HmacHex(WEBHOOK_SECRET, b))
    \/ \E r \in ReqIds : \E fault \in BOOLEAN : webhook(r, fault)
    \/ \E limit \in Limits : \E offset \in Offsets : \E from \in FromFilters :
           \E since \in SinceFilters : \E q \in QFilters :
               /\ ~fetch.open \/ Continues(limit, offset, from, since, q)
               /\ get_messages(limit, offset, from, since, q)

SpecQuery == Init /\ [][NextQuery]_vars

\* Validly signed, conforming ingests, one at a time, and /stats calls.
NextStats ==
    \/ \E r \in ReqIds : \E b \in GoodBodies :
           InFlight = {} /\ Arrive(r, b, HmacHex(WEBHOOK_SECRET, b))
    \/ \E r \in ReqIds : \E fault \in BOOLEAN : webhook(r, fault)
    \/ /\ http_requests_total[<<"/stats", 200>>] < MaxStatsCalls
       /\ get_statistics

SpecStats == Init /\ [][NextStats]_vars

\* Threads that call the functions of app/metrics.py in any interleaving.
NextMetrics ==
    \/ \E t \in Threads : \E key \in MetricKeys : increment_http_request_call(t, key)
    \/ \E t \in Threads : \E result \in MetricResults :
           increment_webhook_result_call(t, result)
    \/ \E t \in Threads : export_metrics_call(t)
    \/ \E t \in Threads : acquire(t)
    \/ \E t \in Threads : http_read(t)
    \/ \E t \in Threads : http_write(t)
    \/ \E t \in Threads : latency_read(t)
    \/ \E t \in Threads : latency_write(t)
    \/ \E t \in Threads : webhook_read(t)
    \/ \E t \in Threads : webhook_write(t)
    \/ \E t \in Threads : export_http(t)
    \/ \E t \in Threads : export_webhook(t)
    \/ \E t \in Threads : export_latency(t)
    \/ \E t \in Threads : release(t)

SpecMetrics == Init /\ [][NextMetrics]_vars

\* One request for each way an ingest ends: stored (B1, and B2 of the same
\* message_id), payload rejected, signature missing, signature not ASCII.
ServiceInputs ==
    {[body |-> b, sig |-> HmacHex(WEBHOOK_SECRET, b)] : b \in {B1, B2, BadFrom}}
    \cup {[body |-> B1, sig |-> x] : x \in {NoHeader, NonAsciiHeader}}

\* The requests answered on `path`.
AnsweredOn(path) == TotalOf(http_requests_total, {path} \X Statuses)

\* Every operation of the service: ingests one at a time, and a client that
\* polls /messages, /stats, /metrics and /health/ready in turn.
NextService ==
    \/ \E r \in ReqIds : \E in \in ServiceInputs :
           InFlight = {} /\ Arrive(r, in.body, in.sig)
    \/ \E r \in ReqIds : \E fault \in BOOLEAN : webhook(r, fault)
    \/ \E limit \in {1, MaxLimit} : \E q \in {Absent, Str(<<"a">>)} :
           /\ AnsweredOn("/messages") < MaxProbes
           /\ AnsweredOn("/messages") = AnsweredOn("/health/ready")
           /\ get_messages(limit, 0, Absent, Absent, q)
    \/ /\ AnsweredOn("/stats") < AnsweredOn("/messages")
       /\ get_statistics
    \/ /\ AnsweredOn("/metrics") < AnsweredOn("/stats")
       /\ get_metrics
    \/ \E db_ready \in BOOLEAN :
           /\ AnsweredOn("/health/ready") < AnsweredOn("/metrics")
           /\ health_ready(db_ready)

SpecService == Init /\ [][NextService]_vars


-----------------------------------------------------------------------------
(* Vocabulary of the properties *)

Done(r) == reqs[r].pc = "done"

\* The signature header equals the hex HMAC-SHA256 of the raw body under the
\* configured secret.
ValidlySigned(rq) == rq.sig = HmacHex(WEBHOOK_SECRET, rq.body)

\* `+` followed by one or more digits
PhoneShaped(f) ==
    /\ f.kind = "str"
    /\ Len(f.s) >= 2
    /\ f.s[1] = "+"
    /\ \A i \in 2..Len(f.s) : f.s[i] \in Digits

MissingField(body) ==
    \/ ~body.json
    \/ \E f \in {body.message_id, body.from, body.to, body.ts} : f.kind # "str"

\* The payload violates the Message shape in one of the listed ways.
ViolatesMessageShape(body) ==
    \/ MissingField(body)
    \/ ~PhoneShaped(body.from)
    \/ ~PhoneShaped(body.to)
    \/ body.ts.s = <<>> \/ body.ts.s[Len(body.ts.s)] # "Z"
    \/ body.text.kind = "str" /\ Len(body.text.s) > MaxTextLen

\* A request that passed authentication and validation and whose store call
\* did not fail.
Stored(r) ==
    /\ Done(r)
    /\ ValidlySigned(reqs[r])
    /\ WebhookPayload(reqs[r].body)
    /\ reqs[r].exc = "none"

RECURSIVE RowsAddedUpTo(_)
RowsAddedUpTo(n) == IF n = 0 THEN 0 ELSE reqs[n].rowsAdded + RowsAddedUpTo(n - 1)

\* Every stored row was added by a request that reports having added it.
StoreAccounted == Len(messages) = RowsAddedUpTo(MaxReqs)

-----------------------------------------------------------------------------
(* Properties of ingestion *)

\* C1: in every reachable state the message store holds at most one record
\* per message_id.
C1_OneRecordPerMessageId ==
    \A i, j \in 1..Len(messages) :
        i # j => messages[i].message_id # messages[j].message_id

\* C2: a validly signed, well-formed ingest whose message_id is not yet stored
\* returns created; one whose message_id is already stored returns duplicate
\* and adds nothing, so the stored record keeps the fields of the first insert.
C2_CreatedThenDuplicate ==
    \A r \in ReqIds :
        Stored(r) =>
            IF reqs[r].seenBefore
            THEN reqs[r].result = "duplicate" /\ reqs[r].rowsAdded = 0
            ELSE reqs[r].result = "created" /\ reqs[r].rowsAdded = 1

\* C3: of the validly signed, well-formed ingest calls with one message_id
\* that were in flight together, at most one gets created and all the others
\* get duplicate.
C3_ExactlyOneCreated ==
    \A S \in SUBSET ReqIds :
        ( /\ Cardinality(S) >= 2
          /\ \A r \in S : Stored(r)
          /\ \A r, q \in S :
                 r # q => /\ {r, q} \in overlapped
                          /\ reqs[r].body.message_id = reqs[q].body.message_id )
        => /\ Cardinality({r \in S : reqs[r].result = "created"}) <= 1
           /\ Cardinality({r \in S : reqs[r].result = "duplicate"})
                  >= Cardinality(S) - 1

\* C4: a request whose signature header is missing, or does not equal the hex
\* HMAC-SHA256 of the raw body under the configured secret, has outcome
\* invalid_signature, never calls the store insert, and leaves the stored
\* records unchanged.
C4_BadSignatureRejected ==
    /\ StoreAccounted
    /\ \A r \in ReqIds :
           (Done(r) /\ ~ValidlySigned(reqs[r])) =>
               /\ reqs[r].result = "invalid_signature"
               /\ reqs[r].insertCalls = 0
               /\ reqs[r].rowsAdded = 0

\* C5: a validly signed request whose payload violates the Message shape has
\* outcome validation_error, never calls the store insert, and leaves the
\* stored records unchanged.
C5_MalformedRejected ==
    /\ StoreAccounted
    /\ \A r \in ReqIds :
           (Done(r) /\ ValidlySigned(reqs[r]) /\ ViolatesMessageShape(reqs[r].body)) =>
               /\ reqs[r].result = "validation_error"
               /\ reqs[r].insertCalls = 0
               /\ reqs[r].rowsAdded = 0

\* A validly signed request whose sender lacks the + was rejected while the
\* store held a record.
C5_Witness ==
    \E r \in ReqIds :
        /\ Done(r) /\ ValidlySigned(reqs[r])
        /\ ~PhoneShaped(reqs[r].body.from)
        /\ reqs[r].result = "validation_error"
        /\ messages # <<>>

\* C6: a validly signed request with a malformed payload is answered 422, and
\* a request with a missing or invalid signature is answered 401.
C6_StatusCodes ==
    \A r \in ReqIds :
        Done(r) =>
            /\ (ValidlySigned(reqs[r]) /\ ViolatesMessageShape(reqs[r].body))
                   => reqs[r].status = 422
            /\ ~ValidlySigned(reqs[r]) => reqs[r].status = 401

\* C7: every finished webhook request has increased the webhook result
\* counters by exactly 1 in total, in the counter of its own outcome.
C7_OneOutcomePerRequest ==
    /\ webhook_requests_total["invalid_signature"]
           + webhook_requests_total["validation_error"]
           + webhook_requests_total["created"]
           + webhook_requests_total["duplicate"]
           = Cardinality({r \in ReqIds : Done(r)})
    /\ \A x \in Results :
           webhook_requests_total[x]
               = Cardinality({r \in ReqIds : Done(r) /\ reqs[r].result = x})

\* C8: the response to an ingest with outcome created or duplicate is the one
\* success acknowledgment, 200 {"status": "ok"}, whether or not the message_id
\* was already stored.
C8_SameAcknowledgment ==
    \A r \in ReqIds :
        (Done(r) /\ reqs[r].result \in {"created", "duplicate"}) =>
            /\ reqs[r].status = 200
            /\ reqs[r].content = "status: ok"

\* Two finished ingests of the same request, one that found its message_id
\* stored and one that did not.
C8_Witness ==
    \E r, q \in ReqIds :
        /\ Stored(r) /\ Stored(q)
        /\ reqs[r].body = reqs[q].body
        /\ ~reqs[r].seenBefore /\ reqs[q].seenBefore
        /\ reqs[r].status = reqs[q].status
        /\ reqs[r].content = reqs[q].content


-----------------------------------------------------------------------------
(* Properties of the query *)

\* The text contains q as a substring, compared case-insensitively.
Contains(t, q) ==
    \E k \in 0..(Len(t) - Len(q)) :
        \A i \in 1..Len(q) : Fold(t[k + i]) = Fold(q[i])

\* The record satisfies every supplied filter.
Satisfies(row, from, since, q) ==
    /\ from.kind = "str" => row.from_msisdn = from.s
    /\ since.kind = "str" => (row.ts = since.s \/ StrLess(since.s, row.ts))
    /\ q.kind = "str" => (row.text.kind = "str" /\ Contains(row.text.s, q.s))

Expected(from, since, q) ==
    {i \in 1..Len(messages) : Satisfies(messages[i], from, since, q)}

RECURSIVE Concat(_)
Concat(pages) ==
    IF pages = <<>> THEN <<>> ELSE Head(pages).rowids \o Concat(Tail(pages))

\* The client has fetched, from offset 0 on and with the table unchanged,
\* pages up to the total.
AllPagesFetched ==
    /\ fetch.open
    /\ fetch.offset = 0
    /\ fetch.rowsAt = Len(messages)
    /\ fetch.limit * Len(fetch.pages) >= fetch.pages[1].total

\* C9: (ts, message_id) orders the stored records strictly and totally, and
\* the pages fetched with limit k at offsets 0, k, 2k, ... concatenate to the
\* whole ordered filtered set, no record repeated and none missing.
C9_StablePagination ==
    AllPagesFetched =>
        LET all == Concat(fetch.pages)
            sel == Selected(messages, fetch.from, fetch.since, fetch.q)
        IN
        /\ \A i, j \in sel :
               i # j => \/ OrderedBefore(messages[i], messages[j])
                        \/ OrderedBefore(messages[j], messages[i])
        /\ \A i, j \in 1..Len(all) : i # j => all[i] # all[j]
        /\ {all[i] : i \in 1..Len(all)} = sel
        /\ \A i, j \in 1..Len(all) :
               i < j => ~OrderedBefore(messages[all[j]], messages[all[i]])

\* C10: a query returns records of the subset that satisfies all supplied
\* filters together (from_msisdn equal to from, ts >= since, text contains
\* q), and total is the size of that subset whatever limit and offset.
C10_FilterConjunction ==
    (fetch.open /\ fetch.rowsAt = Len(messages)) =>
        \A p \in 1..Len(fetch.pages) :
            /\ fetch.pages[p].total
                   = Cardinality(Expected(fetch.from, fetch.since, fetch.q))
            /\ \A i \in 1..Len(fetch.pages[p].rowids) :
                   fetch.pages[p].rowids[i] \in Expected(fetch.from, fetch.since, fetch.q)

-----------------------------------------------------------------------------
(* Properties of the statistics *)

\* The last /stats response was computed on the table as it is now.
StatsFresh == stats.open /\ stats.rowsAt = Len(messages)

RECURSIVE SumCounts(_)
SumCounts(per) == IF per = <<>> THEN 0 ELSE Head(per).count + SumCounts(Tail(per))

\* C11: stats reports total_messages = the number of stored records,
\* senders_count = the number of distinct from_msisdn, first_message_ts and
\* last_message_ts = the least and greatest ts (not created_at) over all
\* records, and, with at most 10 distinct senders, counts in
\* messages_per_sender that sum to total_messages.
C11_StatsCorrect ==
    StatsFresh =>
        LET b == stats.body
            n == Len(messages)
        IN
        /\ b.total_messages = n
        /\ b.senders_count = Cardinality({messages[i].from_msisdn : i \in 1..n})
        /\ IF n = 0
           THEN b.first_message_ts = Null /\ b.last_message_ts = Null
           ELSE /\ b.first_message_ts.kind = "str"
                /\ b.last_message_ts.kind = "str"
                /\ \E i \in 1..n : messages[i].ts = b.first_message_ts.s
                /\ \E i \in 1..n : messages[i].ts = b.last_message_ts.s
                /\ \A i \in 1..n :
                       /\ ~StrLess(messages[i].ts, b.first_message_ts.s)
                       /\ ~StrLess(b.last_message_ts.s, messages[i].ts)
        /\ b.senders_count <= 10 => SumCounts(b.messages_per_sender) = b.total_messages

\* Stats over two records of two senders, the record created first having
\* the later ts.
C11_Witness ==
    /\ StatsFresh
    /\ Len(messages) = 2
    /\ stats.body.senders_count = 2
    /\ StrLess(messages[2].ts, messages[1].ts)
    /\ stats.body.first_message_ts = Str(messages[2].ts)

\* C12: messages_per_sender has at most 10 entries, ordered by count
\* descending, senders with equal counts by sender value ascending.
C12_TopSendersDeterministic ==
    StatsFresh =>
        LET per == stats.body.messages_per_sender IN
        /\ Len(per) <= 10
        /\ \A i, j \in 1..Len(per) :
               i < j => \/ per[i].count > per[j].count
                        \/ /\ per[i].count = per[j].count
                           /\ StrLess(per[i].from, per[j].from)

-----------------------------------------------------------------------------
(* Properties of the HTTP request counters *)

\* C13: every response produced, error responses caused by an exception in
\* the handler included, has increased the HTTP request counters by exactly
\* 1 in total, in the counter of its path and status.
C13_OneCountPerResponse ==
    /\ TotalOf(http_requests_total, HttpKeys) = Cardinality({r \in ReqIds : Done(r)})
    /\ \A st \in Statuses :
           http_requests_total[<<"/webhook", st>>]
               = Cardinality({r \in ReqIds : Done(r) /\ reqs[r].status = st})

-----------------------------------------------------------------------------
(* Authentication before validation *)

\* What the header is, apart from the body it was computed over.
HeaderClass(rq) == <<rq.sig.kind, rq.sig.key, rq.sig.msg = rq.body>>

\* Two finished requests that both fail authentication, with the same kind
\* of header, the first with a conforming payload and the second without.
AuthFailurePair(r, q) ==
    /\ Done(r) /\ Done(q)
    /\ ~ValidlySigned(reqs[r]) /\ ~ValidlySigned(reqs[q])
    /\ HeaderClass(reqs[r]) = HeaderClass(reqs[q])
    /\ WebhookPayload(reqs[r].body) /\ ~WebhookPayload(reqs[q].body)

\* C15: two requests that both fail authentication and differ only in
\* whether their payload is well-formed get the same outcome classification,
\* response status and response body, and neither is classified as a
\* validation error.
C15_AuthFailureHidesValidity ==
    \A r, q \in ReqIds :
        AuthFailurePair(r, q) =>
            /\ reqs[r].result = reqs[q].result
            /\ reqs[r].status = reqs[q].status
            /\ reqs[r].content = reqs[q].content
            /\ reqs[q].result # "validation_error"

\* Such a pair, rejected as invalid_signature.
C15_Witness ==
    \E r, q \in ReqIds :
        /\ AuthFailurePair(r, q)
        /\ reqs[r].sig.kind = "hex"
        /\ reqs[q].result = "invalid_signature"
        /\ reqs[q].status = 401

-----------------------------------------------------------------------------
(* Properties of the q filter and of the page size *)

\* The records whose text contains q literally, compared case-insensitively.
LiteralMatches(q) ==
    {i \in 1..Len(messages) :
        messages[i].text.kind = "str" /\ Contains(messages[i].text.s, q.s)}

\* C17: the q filter selects exactly the records whose text contains q as a
\* literal substring, compared case-insensitively, `%` and `_` included; a
\* record with no text never matches.
C17_LiteralSubstring ==
    (fetch.open /\ fetch.rowsAt = Len(messages) /\ fetch.q.kind = "str"
         /\ fetch.from = Absent /\ fetch.since = Absent) =>
        /\ Selected(messages, Absent, Absent, fetch.q) = LiteralMatches(fetch.q)
        /\ \A p \in 1..Len(fetch.pages) :
               /\ fetch.pages[p].total = Cardinality(LiteralMatches(fetch.q))
               /\ \A i \in 1..Len(fetch.pages[p].data) :
                      /\ fetch.pages[p].data[i].text.kind = "str"
                      /\ Contains(fetch.pages[p].data[i].text.s, fetch.q.s)

Min(a, b) == IF a < b THEN a ELSE b

Max(a, b) == IF a > b THEN a ELSE b

\* C18: the number of records one query call returns is
\* min(limit, max(0, total - offset)), total being the count of that call.
C18_PageSize ==
    fetch.open =>
        \A p \in 1..Len(fetch.pages) :
            LET pg == fetch.pages[p] IN
            Len(pg.data) = Min(pg.limit, Max(0, pg.total - pg.offset))

\* Three pages of limit 1 over two records: the first cut by the limit, the
\* last beyond the total and empty.
C18_Witness ==
    /\ fetch.open
    /\ Len(fetch.pages) = 3
    /\ fetch.pages[1].total = 2
    /\ Len(fetch.pages[1].data) = 1
    /\ fetch.pages[3].offset = 2
    /\ Len(fetch.pages[3].data) = 0

-----------------------------------------------------------------------------
(* Properties of the metrics module *)

Quiescent == \A t \in Threads : thr[t].pc = "idle"

\* C14: under any interleaving of increment_http_request,
\* increment_webhook_result and export_metrics calls no increment is lost:
\* once the calls have returned each counter equals the number of increment
\* calls made for it; and every exported snapshot is the value the counters
\* had together at one moment at which no increment call was partly applied.
C14_NoLostIncrementAtomicExport ==
    /\ Quiescent =>
           /\ http_requests_total = completed.http
           /\ webhook_requests_total = completed.webhook
           /\ request_latency_ms_count = TotalOf(completed.http, HttpKeys)
    /\ \A t \in Threads : thr[t].pc = "unlock" /\ thr[t].op = "export" =>
           thr[t].snap \in history
    /\ exported \subseteq history

\* An export_metrics call waits for the lock while an increment_http_request
\* call, the second for its key, has written one of its two counters.
C14_Witness ==
    \E t, u \in Threads :
        /\ thr[t].pc = "lock" /\ thr[t].op = "export"
        /\ thr[u].pc \in {"latency_read", "latency_write"}
        /\ http_requests_total[thr[u].key] = 2
        /\ exported # {}

\* The latency-sample counter equals the sum of the HTTP request counters.
LatencyIsHttpSum(http, latency) == latency = TotalOf(http, HttpKeys)

\* C19 as stated: in every reachable state of the metrics module the
\* latency-sample counter equals the sum of the HTTP request counters over
\* all (path, status) keys, and so it does in every exported snapshot.
C19_LatencyIsHttpSumAlways ==
    /\ LatencyIsHttpSum(http_requests_total, request_latency_ms_count)
    /\ \A s \in exported : LatencyIsHttpSum(s.http, s.latency)

\* C19 amended: the latency-sample counter equals the sum of the HTTP request
\* counters in every state in which no thread holds the metrics lock, and in
\* every exported snapshot.
C19_LatencyIsHttpSumLockFree ==
    /\ lock = NoThread =>
           LatencyIsHttpSum(http_requests_total, request_latency_ms_count)
    /\ \A s \in exported : LatencyIsHttpSum(s.http, s.latency)

\* The lock is free after increments of both keys, and a snapshot taken
\* after an increment has been exported.
C19_Witness ==
    /\ lock = NoThread
    /\ \A k \in MetricKeys : http_requests_total[k] >= 1
    /\ \E s \in exported : s.latency >= 1

-----------------------------------------------------------------------------
(* Properties of the store across all operations *)

\* The step answered a request for `path`.
Answered(path) ==
    \E status \in Statuses :
        http_requests_total'[<<path, status>>] # http_requests_total[<<path, status>>]

\* C16: no operation of the service (ingest with any outcome, query, stats,
\* metrics export, readiness check) changes a field of, or removes, a record
\* that is already stored; query, stats, metrics export and readiness check
\* leave the whole store unchanged.
C16_StoreOnlyGrows ==
    [][ /\ Len(messages') >= Len(messages)
        /\ \A i \in 1..Len(messages) : messages'[i] = messages[i]
        /\ (\E path \in Paths \ {"/webhook"} : Answered(path))
               => messages' = messages
        /\ (fetch' # fetch \/ stats' # stats \/ exported' # exported)
               => messages' = messages ]_vars

\* Two ingests of one message_id have been stored, and the store has been
\* queried, aggregated, exported and probed.
C16_Witness ==
    /\ Len(messages) >= 2
    /\ messages[1].message_id = messages[2].message_id
    /\ fetch.open /\ Len(fetch.pages[1].data) >= 1
    /\ stats.open /\ stats.body.total_messages >= 1
    /\ exported # {}
    /\ \E status \in Statuses : http_requests_total[<<"/health/ready", status>>] >= 1

====
